---- MODULE Spec2Model ----
(***************************************************************************)
(* asciichartpy.plot(series, cfg): one call renders a numeric series as a  *)
(* block-character line chart.  The model keeps the caller's list object,  *)
(* the configuration, and what the last call did: its outcome (returned    *)
(* text or the exception raised), the canvas writes it performed, the      *)
(* sequence the line loop drew, and the canvas.                            *)
(*                                                                         *)
(* Numbers.  A sample is a multiple of 1/Res, stored as the integer        *)
(* numerator; minimum, maximum, height and threshold use the same unit.    *)
(* Products with the ratio are kept as exact fractions and floor, ceil and *)
(* round (Python 3, ties to even) are computed on the fraction.            *)
(* Strings are sequences of one-character strings, so that indexing a      *)
(* string (color[0]) and concatenating are what Python does.               *)
(***************************************************************************)
EXTENDS Integers, Sequences, FiniteSets, TLC

\* ---------------------------------------------------------------- bounds
Res == 2            \* samples are multiples of 1/Res
MaxLen == 3         \* length of the short input series
MaxCalls == 2       \* calls made in a row on the same list object

\* ------------------------------------------------------ program constants
PadTarget == 30     \* the literal 30 of Z = (Q * 30) - len(series)
DefaultOffset == 3  \* cfg.get('offset', 3)
LabelLen == 9       \* len('{:8.2f} '.format(v)) for |v| < 10^5

VARIABLES series, cfg, calls, before, last, prev

vars == <<series, cfg, calls, before, last, prev>>

\* ---------------------------------------------------------------- samples
NaN == [nan |-> TRUE, v |-> 0]

Num(n) == [nan |-> FALSE, v |-> n]

isnan(n) == n.nan

_isnum(n) == ~isnan(n)

None == [some |-> FALSE, v |-> 0]

Some(n) == [some |-> TRUE, v |-> n]

\* cfg.get(key, default)
Get(opt, default) == IF opt.some THEN opt.v ELSE default

\* ------------------------------------------------------------- arithmetic
SetMin(S) == CHOOSE m \in S : \A n \in S : m <= n

SetMax(S) == CHOOSE m \in S : \A n \in S : m >= n

Min2(a, b) == IF a < b THEN a ELSE b

Max2(a, b) == IF a > b THEN a ELSE b

\* floor(n/d), d > 0
Floor(n, d) == n \div d

\* ceil(n/d), d > 0
Ceil(n, d) == -((-n) \div d)

\* Python 3 round(n/d): nearest integer, ties to the even one
Round(n, d) ==
  LET q == n \div d
      r == n % d
  IN  IF 2 * r < d THEN q
      ELSE IF 2 * r > d THEN q + 1
      ELSE IF q % 2 = 0 THEN q ELSE q + 1

\* ---------------------------------------------------------------- strings
RECURSIVE Concat(_)
Concat(parts) ==
  IF parts = <<>> THEN <<>> ELSE Head(parts) \o Concat(Tail(parts))

\* A color value: a tuple of strings, or a string (its parts are its characters).
ColorDefault == [isTuple |-> TRUE, parts |-> << <<>>, <<>> >>]

ColorEmptyStr == [isTuple |-> FALSE, parts |-> <<>>]

ColorStr == [isTuple |-> FALSE, parts |-> << <<"C">>, <<"c">> >>]

\* the key 'color' is absent: cfg.get('color', ('', '')) is the default
NoColor == [some |-> FALSE, v |-> ColorDefault]

\* truth value of a tuple or a string: it is non-empty
Truthy(color) == Len(color.parts) > 0

\* truth value of cfg.get('threshold', None): set and non-zero
ThresholdSet(threshold) == threshold.some /\ threshold.v # 0

\* ------------------------------------------------------------------ cells
Blank == [kind |-> "blank", glyph |-> -1, color |-> <<>>, cents |-> 0]

Label(c) == [kind |-> "label", glyph |-> -1, color |-> <<>>, cents |-> c]

Sym(i, c) == [kind |-> "sym", glyph |-> i, color |-> c, cents |-> 0]

Reset == [kind |-> "reset", glyph |-> -1, color |-> <<>>, cents |-> 0]

Newline == [kind |-> "nl", glyph |-> -1, color |-> <<>>, cents |-> 0]

\* ------------------------------------------------------------ the checks
\* variant: only the empty list is turned away
NoChartWhenEmptyOnly(s) == Len(s) = 0

\* len(series) == 0 or all(isnan(n) for n in series)
NoChart(s) == Len(s) = 0 \/ \A i \in 1..Len(s) : isnan(s[i])

\* filter(_isnum, series), as the set of the values
Present(s) == {s[i].v : i \in {j \in 1..Len(s) : _isnum(s[j])}}

\* ------------------------------------------------------------- the scale
\* minimum, maximum, interval, offset, height, ratio (rn/rd), threshold,
\* color, min2, max2, rows and the canvas width, as plot resolves them;
\* s is non-empty and has a present sample
Scale(s, c) ==
  LET minimum == Get(c.minimum, SetMin(Present(s)))
      maximum == Get(c.maximum, SetMax(Present(s)))
      interval == maximum - minimum
      offset == Get(c.offset, DefaultOffset)
      height == Get(c.height, interval)
      rn == IF interval > 0 THEN height ELSE 1
      rd == IF interval > 0 THEN interval ELSE 1
      min2 == Floor(minimum * rn, Res * rd)
      max2 == Ceil(maximum * rn, Res * rd)
  IN  [minimum |-> minimum, maximum |-> maximum, interval |-> interval,
       offset |-> offset, rn |-> rn, rd |-> rd,
       threshold |-> c.threshold,
       color |-> Get(c.color, ColorDefault),
       min2 |-> min2, max2 |-> max2, rows |-> max2 - min2,
       width |-> Len(s) + offset,
       lastAbove |-> _isnum(s[Len(s)]) /\ c.threshold.some
                       /\ s[Len(s)].v > c.threshold.v]

clamp(n, k) == Min2(Max2(n, k.minimum), k.maximum)

scaled(y, k) == Round(clamp(y, k) * k.rn, Res * k.rd) - k.min2

\* the label of grid line y, in hundredths as '{:8.2f} ' prints it
LabelCents(y, k) ==
  LET R == IF k.rows # 0 THEN k.rows ELSE 1
  IN  Round(100 * (k.maximum * R - (y - k.min2) * k.interval), Res * R)

\* ------------------------------------------------------------ the canvas
\* [[' '] * width for i in range(rows + 1)]; no row when rows + 1 <= 0
NewCanvas(k) ==
  [r \in 1..Max2(k.rows + 1, 0) |-> [col \in 1..Max2(k.width, 0) |-> Blank]]

\* A list index as Python resolves it: -n..-1 count from the end.
ValidIndex(i, n) == -n <= i /\ i < n

Resolve(i, n) == IF i < 0 THEN i + n ELSE i

\* result[r][c] = cell.  The write is logged with the indices the code
\* used; an index outside the list raises IndexError and ends the call.
Put(st, stage, r, c, cell) ==
  IF st.err # "none" THEN st
  ELSE
    LET nr == Len(st.canvas)
        okr == ValidIndex(r, nr)
        nc == IF okr THEN Len(st.canvas[Resolve(r, nr) + 1]) ELSE 0
        ok == okr /\ ValidIndex(c, nc)
        w == [stage |-> stage, row |-> r, col |-> c, cell |-> cell, ok |-> ok]
    IN  IF ok
        THEN [st EXCEPT !.canvas[Resolve(r, nr) + 1][Resolve(c, nc) + 1] = cell,
                        !.writes = Append(@, w)]
        ELSE [st EXCEPT !.writes = Append(@, w), !.err = "IndexError"]

Raise(st, e) == IF st.err # "none" THEN st ELSE [st EXCEPT !.err = e]

\* symbols[i] + color: a str and a tuple do not concatenate
PlusColor(i, color) ==
  IF color.isTuple THEN [err |-> "TypeError", cell |-> Blank]
  ELSE [err |-> "none", cell |-> Sym(i, Concat(color.parts))]

\* symbols[i] + color[j]: an element of the tuple, or a character of the string
PlusIndex(i, color, j) ==
  IF j >= Len(color.parts) THEN [err |-> "IndexError", cell |-> Blank]
  ELSE [err |-> "none", cell |-> Sym(i, color.parts[j + 1])]

\* the value assigned to result[y - min2][offset - 1] in the axis loop
TickCell(y, k) ==
  IF Truthy(k.color)
  THEN IF ThresholdSet(k.threshold)
       THEN IF y = 0 THEN PlusColor(0, k.color)
            ELSE PlusIndex(1, k.color, IF k.lastAbove THEN 0 ELSE 1)
       ELSE PlusColor(IF y = 0 THEN 0 ELSE 1, k.color)
  ELSE [err |-> "none", cell |-> Sym(IF y = 0 THEN 0 ELSE 1, <<>>)]

\* for y in range(min2, max2 + 1): the label, then the tick
RECURSIVE AxisLoop(_, _, _)
AxisLoop(y, k, st) ==
  IF y > k.max2 \/ st.err # "none" THEN st
  ELSE
    LET s1 == Put(st, "label", y - k.min2, Max2(k.offset - LabelLen, 0),
                  Label(LabelCents(y, k)))
        t == TickCell(y, k)
        s2 == IF t.err # "none" THEN Raise(s1, t.err)
              ELSE Put(s1, "axis", y - k.min2, k.offset - 1, t.cell)
    IN  AxisLoop(y + 1, k, s2)

\* the first value is a tick mark across the y-axis (only under a threshold)
FirstTick(d0, k, st) ==
  IF st.err # "none" \/ isnan(d0) \/ ~ThresholdSet(k.threshold) THEN st
  ELSE
    LET t == PlusIndex(0, k.color, IF k.lastAbove THEN 0 ELSE 1)
    IN  IF t.err # "none" THEN Raise(st, t.err)
        ELSE Put(st, "first", k.rows - scaled(d0.v, k), k.offset - 1, t.cell)

\* ---------------------------------------------------------- the resampler
\* [x for i in range(0, Z)]: nothing when Z <= 0
Repeat(x, Z) == [i \in 1..Max2(Z, 0) |-> x]

\* sum(block) // Q: NaN when a sample is missing, else the floor of the quotient
RECURSIVE SumOf(_)
SumOf(block) == IF block = <<>> THEN 0 ELSE Head(block).v + SumOf(Tail(block))

BlockValue(block, Q) ==
  IF \E i \in 1..Len(block) : isnan(block[i]) THEN NaN
  ELSE Num(Res * Floor(SumOf(block), Res * Q))

\* [sum(series[i:i+Q])//Q for i in range(0, len(series), Q)]
BlockAverage(s, Q) ==
  [j \in 1..Ceil(Len(s), Q) |->
     BlockValue(SubSeq(s, (j - 1) * Q + 1, Min2(j * Q, Len(s))), Q)]

\* "if width:" with width = len(series) + offset.  list is the caller's
\* list after the in-place +=, drawn the local list the line loop walks.
Resample(s, width) ==
  IF width = 0 THEN [err |-> "none", list |-> s, drawn |-> s]
  ELSE IF Len(s) % width # 0
  THEN LET Q == (Len(s) \div width) + 1
           Z == (Q * PadTarget) - Len(s)
           padded == s \o Repeat(s[Len(s)], Z)
       IN  [err |-> "none", list |-> padded, drawn |-> BlockAverage(padded, Q)]
  ELSE [err |-> "NameError", list |-> s, drawn |-> <<>>]

\* ------------------------------------------------------------ the line loop
\* variant: range(start, end + 1)
FillRangeInclusive(y0, y1) == (Min2(y0, y1) + 1)..Max2(y0, y1)

\* range(start, end) with start = min(y0, y1) + 1 and end = max(y0, y1)
FillRange(y0, y1) == (Min2(y0, y1) + 1)..(Max2(y0, y1) - 1)

RECURSIVE Fill(_, _, _, _, _)
Fill(y, end, col, k, st) ==
  IF y >= end \/ st.err # "none" THEN st
  ELSE Fill(y + 1, end, col, k, Put(st, "line", k.rows - y, col, Sym(9, <<>>)))

\* the body of "for x in range(len(series) - 1)" for one x (0-based)
Segment(x, d, k, st) ==
  LET d0 == d[x + 1]
      d1 == d[x + 2]
      col == x + k.offset
  IN  IF isnan(d0) /\ isnan(d1) THEN st
      ELSE IF isnan(d0) /\ _isnum(d1)
      THEN Put(st, "line", k.rows - scaled(d1.v, k), col, Sym(2, <<>>))
      ELSE IF _isnum(d0) /\ isnan(d1)
      THEN Put(st, "line", k.rows - scaled(d0.v, k), col, Sym(3, <<>>))
      ELSE
        LET y0 == scaled(d0.v, k)
            y1 == scaled(d1.v, k)
        IN  IF y0 = y1 THEN Put(st, "line", k.rows - y0, col, Sym(4, <<>>))
            ELSE
              LET s1 == Put(st, "line", k.rows - y1, col,
                            Sym(IF y0 > y1 THEN 5 ELSE 6, <<>>))
                  s2 == Put(s1, "line", k.rows - y0, col,
                            Sym(IF y0 > y1 THEN 7 ELSE 8, <<>>))
                  rng == FillRange(y0, y1)
              IN  IF rng = {} THEN s2
                  ELSE Fill(SetMin(rng), SetMax(rng) + 1, col, k, s2)

RECURSIVE LineLoop(_, _, _, _)
LineLoop(x, d, k, st) ==
  IF x >= Len(d) - 1 \/ st.err # "none" THEN st
  ELSE LineLoop(x + 1, d, k, Segment(x, d, k, st))

\* ----------------------------------------------------------- the serializer
\* ''.join(row).rstrip(): the trailing blank cells go (a row's last written
\* cell is a glyph: the tick at offset - 1 is at or right of the label)
RECURSIVE rstrip(_)
rstrip(row) ==
  IF row = <<>> THEN <<>>
  ELSE IF row[Len(row)] = Blank THEN rstrip(SubSeq(row, 1, Len(row) - 1))
  ELSE row

\* sep.join(lines)
RECURSIVE Join(_, _)
Join(lines, sep) ==
  IF lines = <<>> THEN <<>>
  ELSE IF Len(lines) = 1 THEN lines[1]
  ELSE lines[1] \o sep \o Join(Tail(lines), sep)

\* '\033[0m\n'.join([''.join(row).rstrip() for row in result])
Serialize(canvas) ==
  Join([r \in 1..Len(canvas) |-> rstrip(canvas[r])], <<Reset, Newline>>)

\* ------------------------------------------------------------------- plot
NoScale ==
  [minimum |-> 0, maximum |-> 0, interval |-> 0, offset |-> 0, rn |-> 1,
   rd |-> 1, threshold |-> None, color |-> ColorDefault, min2 |-> 0,
   max2 |-> 0, rows |-> 0, width |-> 0, lastAbove |-> FALSE]

Idle ==
  [outcome |-> "none", text |-> <<>>, reached |-> "none", writes |-> <<>>,
   drawn |-> <<>>, result |-> <<>>, k |-> NoScale]

\* One call plot(s, c): what it returns or raises (call), and the caller's
\* list afterwards (list).  reached names the last stage the call entered.
PlotCall(s, c) ==
  IF NoChart(s)
  THEN [list |-> s, call |-> [Idle EXCEPT !.outcome = "empty"]]
  ELSE IF Present(s) = {}
  THEN \* min(filter(_isnum, series)) of an empty sequence
       [list |-> s, call |-> [Idle EXCEPT !.outcome = "ValueError"]]
  ELSE
    LET k == Scale(s, c)
    IN  IF k.minimum > k.maximum
        THEN [list |-> s,
              call |-> [Idle EXCEPT !.outcome = "ValueError", !.k = k]]
        ELSE
          LET st0 == [canvas |-> NewCanvas(k), writes |-> <<>>, err |-> "none"]
              st1 == AxisLoop(k.min2, k, st0)
              st2 == FirstTick(s[1], k, st1)
          IN  IF st2.err # "none"
              THEN [list |-> s,
                    call |-> [outcome |-> st2.err, text |-> <<>>,
                              reached |-> "axis", writes |-> st2.writes,
                              drawn |-> <<>>, result |-> st2.canvas, k |-> k]]
              ELSE
                LET rs == Resample(s, k.width)
                    st3 == IF rs.err # "none" THEN Raise(st2, rs.err)
                           ELSE LineLoop(0, rs.drawn, k, st2)
                IN  [list |-> rs.list,
                     call |-> [outcome |-> IF st3.err # "none" THEN st3.err
                                           ELSE "chart",
                               text |-> IF st3.err # "none" THEN <<>>
                                        ELSE Serialize(st3.canvas),
                               reached |-> IF rs.err # "none" THEN "resample"
                                           ELSE "line",
                               writes |-> st3.writes, drawn |-> rs.drawn,
                               result |-> st3.canvas, k |-> k]]

\* ------------------------------------------------------------- the inputs
\* -1, 1/Res and 2, and a missing sample
Samples == {NaN, Num(-Res), Num(1), Num(2 * Res)}

ShortSeries == UNION {[1..n -> Samples] : n \in 0..MaxLen}

\* a series of PadTarget - 1 samples: two samples, the second one present,
\* followed by a flat tail
LongSeries ==
  {s \o Repeat(s[2], PadTarget - 3) :
     s \in {t \in [1..2 -> Samples] : _isnum(t[2])}}

\* (minimum, maximum) as configured: neither, the minimum, both, and a
\* minimum above the maximum
Ranges ==
  {<<None, None>>, <<Some(0), None>>, <<Some(0), Some(Res)>>,
   <<Some(Res), Some(0)>>}

Configs ==
  {[minimum |-> r[1], maximum |-> r[2], height |-> h, offset |-> None,
    threshold |-> th, color |-> col, width |-> w] :
     r \in Ranges, h \in {None, Some(Res)}, th \in {None, Some(Res)},
     col \in {NoColor, Some(ColorEmptyStr), Some(ColorStr)},
     w \in {None, Some(2)}}

Init ==
  /\ series \in ShortSeries \cup LongSeries
  /\ cfg \in Configs
  /\ calls = 0
  /\ before = series
  /\ last = Idle
  /\ prev = [outcome |-> "none", text |-> <<>>]

\* the caller calls plot(series, cfg) on its list object
plot ==
  /\ calls < MaxCalls
  /\ LET r == PlotCall(series, cfg)
     IN  /\ series' = r.list
         /\ last' = r.call
  /\ before' = series
  /\ prev' = [outcome |-> last.outcome, text |-> last.text]
  /\ calls' = calls + 1
  /\ cfg' = cfg

Next == plot

Spec == Init /\ [][Next]_vars

\* ================================================================ claims
Called == calls >= 1

\* the scale of the last call, from the list as it was passed in
K == last.k

\* the series has no sample, or every sample of it is missing
AllMissing(s) == \A i \in 1..Len(s) : s[i] = NaN

\* a call on a series with a present sample, under minimum <= maximum
Rendering == Called /\ ~AllMissing(before) /\ K.minimum <= K.maximum

Lines(text) == 1 + Cardinality({i \in 1..Len(text) : text[i] = Newline})

\* C1: for a non-empty series with a present sample and minimum <= maximum,
\* plot returns a non-empty text of exactly rows + 1 lines, with
\* rows = ceil(maximum * ratio) - floor(minimum * ratio).
C1_ReturnsChartOfRowsPlusOneLines ==
  Rendering =>
    /\ last.outcome = "chart"
    /\ last.text # <<>>
    /\ Lines(last.text)
         = Ceil(K.maximum * K.rn, Res * K.rd)
             - Floor(K.minimum * K.rn, Res * K.rd) + 1

\* C2: for a series with no sample, or with every sample missing, plot
\* returns the empty string, raises nothing and leaves the series as it was,
\* whatever the configuration.
C2_NoChartReturnsEmpty ==
  (Called /\ AllMissing(before)) =>
    /\ last.outcome = "empty"
    /\ last.text = <<>>
    /\ series = before

\* C2, its case: an all-missing series was plotted under a configuration
\* whose minimum exceeds its maximum.
C2_Witness ==
  /\ Called
  /\ Len(before) > 0
  /\ AllMissing(before)
  /\ cfg.minimum.some /\ cfg.maximum.some
  /\ cfg.minimum.v > cfg.maximum.v
  /\ last.outcome = "empty"

\* C3: after a call, the caller's list has the elements it had before the
\* call, in the same order.
C3_SeriesNeverMutated == Called => series = before

\* C4: a second call on the same list and configuration ends as the first
\* did: the same outcome and the same text.
C4_SecondCallSameOutcome ==
  calls >= 2 => (last.outcome = prev.outcome /\ last.text = prev.text)

\* the average of a block, truncated towards zero
TruncatedAverage(block, Q) ==
  IF \E i \in 1..Len(block) : isnan(block[i]) THEN NaN
  ELSE LET n == SumOf(block)
           d == Res * Q
       IN  Num(Res * (IF n >= 0 THEN n \div d ELSE -((-n) \div d)))

\* the series padded with its final element to a multiple of
\* Q = ceil(len / W), cut into blocks of Q, each replaced by its average
BlockAveraged(s, W) ==
  LET Q == Ceil(Len(s), W)
      padded == s \o Repeat(s[Len(s)], (Q - (Len(s) % Q)) % Q)
  IN  [j \in 1..(Len(padded) \div Q) |->
         TruncatedAverage(SubSeq(padded, (j - 1) * Q + 1, j * Q), Q)]

\* C5: under a width W with 1 <= W <= len(series), the sequence drawn is
\* the block-averaged series for Q = ceil(len(series) / W).
C5_WidthBlockAverages ==
  (Called /\ last.reached = "line" /\ cfg.width.some
     /\ 1 <= cfg.width.v /\ cfg.width.v <= Len(before))
  => last.drawn = BlockAveraged(before, cfg.width.v)

\* C6: without a width, the sequence drawn is the input series: same
\* length, same values.
C6_NoWidthDrawsInput ==
  (Called /\ last.reached = "line" /\ ~cfg.width.some) => last.drawn = before

\* C7: the text is the canvas rows, top to bottom, each without its
\* trailing blanks, separated by one newline, with no trailing newline; a
\* color reset occurs only under a configured color, and then only as the
\* last thing of the text.
C7_RowsJoinedByNewline ==
  last.outcome = "chart" =>
    LET rows == [r \in 1..Len(last.result) |-> rstrip(last.result[r])]
        joined == Join(rows, <<Newline>>)
    IN  \/ last.text = joined
        \/ cfg.color.some /\ last.text = joined \o <<Reset>>

\* C8: with a present sample, minimum <= maximum and offset >= 1, every
\* canvas write of the axis loop, the first-sample tick and the line loop
\* has its row in 0..rows and its column in 0..(canvas width - 1).
C8_WritesInsideCanvas ==
  (Rendering /\ K.offset >= 1) =>
    \A i \in 1..Len(last.writes) :
      /\ last.writes[i].row \in 0..K.rows
      /\ last.writes[i].col \in 0..(Len(before) + K.offset - 1)

\* what the line loop wrote in a column: the (row, glyph) pairs
LineWrites(col) ==
  {<<last.writes[i].row, last.writes[i].cell.glyph>> :
     i \in {j \in 1..Len(last.writes) :
              /\ last.writes[j].stage = "line"
              /\ last.writes[j].col = col
              /\ last.writes[j].ok}}

\* the pairs of the drawn sequence with both samples present and different
\* scaled rows (x is 0-based)
Steep ==
  {x \in 0..(Len(last.drawn) - 2) :
     /\ _isnum(last.drawn[x + 1])
     /\ _isnum(last.drawn[x + 2])
     /\ scaled(last.drawn[x + 1].v, K) # scaled(last.drawn[x + 2].v, K)}

\* the corner glyphs of a steep pair: at d1's row 5 when the value falls
\* and 6 when it rises, at d0's row 7 when it falls and 8 when it rises
Corners(y0, y1) ==
  {<<K.rows - y1, IF y0 > y1 THEN 5 ELSE 6>>,
   <<K.rows - y0, IF y0 > y1 THEN 7 ELSE 8>>}

\* C9 (as stated): for a steep pair at x the line loop writes the corners
\* in column x + offset, and glyph 9 in every scaled row from
\* min(y0, y1) + 1 up to max(y0, y1), the upper bound included.
C9_FillIncludesUpperBound ==
  (Called /\ last.reached = "line") =>
    \A x \in Steep :
      LET y0 == scaled(last.drawn[x + 1].v, K)
          y1 == scaled(last.drawn[x + 2].v, K)
      IN  /\ Corners(y0, y1) \subseteq LineWrites(x + K.offset)
          /\ \A y \in (Min2(y0, y1) + 1)..Max2(y0, y1) :
               <<K.rows - y, 9>> \in LineWrites(x + K.offset)

\* C9 (amended): for a steep pair at x the line loop writes, in column
\* x + offset, the two corners and glyph 9 in the scaled rows strictly
\* between min(y0, y1) and max(y0, y1), and nothing else: the row of
\* max(y0, y1) holds a corner, not glyph 9.
C9_SteepSegment ==
  (Called /\ last.reached = "line") =>
    \A x \in Steep :
      LET y0 == scaled(last.drawn[x + 1].v, K)
          y1 == scaled(last.drawn[x + 2].v, K)
      IN  LineWrites(x + K.offset)
            = Corners(y0, y1)
                \cup {<<K.rows - y, 9>> :
                        y \in (Min2(y0, y1) + 1)..(Max2(y0, y1) - 1)}

\* C9, its case: the line loop drew a pair whose scaled rows are two or
\* more apart, so that there is a row to fill.
C9_Witness ==
  /\ Called
  /\ last.reached = "line"
  /\ \E x \in Steep :
       LET y0 == scaled(last.drawn[x + 1].v, K)
           y1 == scaled(last.drawn[x + 2].v, K)
       IN  /\ Max2(y0, y1) - Min2(y0, y1) >= 2
           /\ <<K.rows - Min2(y0, y1) - 1, 9>> \in LineWrites(x + K.offset)

\* C10: in a returned chart, the tick the axis loop wrote on a row is
\* glyph 0 exactly when the row's label value
\* maximum - r * interval / max(rows, 1) is 0, and glyph 1 on the others.
C10_OriginTickOnZeroRow ==
  last.outcome = "chart" =>
    \A i \in 1..Len(last.writes) :
      last.writes[i].stage = "axis" =>
        LET r == last.writes[i].row
            R == Max2(K.rows, 1)
            zero == K.maximum * R - r * K.interval = 0
        IN  last.writes[i].cell.glyph = IF zero THEN 0 ELSE 1

====
